---- MODULE Spec2Model ----
(***************************************************************************)
(* A model of the Exa search command-line tool (src/src/cli.ts).           *)
(*                                                                         *)
(* One process run is one invocation of one subcommand.  The handler of a  *)
(* subcommand runs up to its single suspension point (the awaited call to  *)
(* the exa-js client) in one step; the call then either resolves, and the  *)
(* rest of the try block runs, or rejects, and the catch block runs.       *)
(*                                                                         *)
(* Strings whose characters the program inspects (the num and days option  *)
(* values, the text of a result) are sequences of one-character strings.   *)
(* Strings the program only passes on are TLA+ strings.  A JavaScript      *)
(* object with optional properties is a function whose DOMAIN holds the    *)
(* properties that are present; <<>> is the object with none.              *)
(* Non-ASCII literals of the source are written in ASCII between brackets  *)
(* ("[x] " for the cross mark, "[doc] " for the page emoji, and so on).    *)
(***************************************************************************)
EXTENDS Integers, Sequences, FiniteSets, TLC

VARIABLES
    pc,        \* position of the invocation: start, await, done, exited
               \* (format, formatted when formatResults is run on its own)
    cmd,       \* the subcommand commander dispatched to
    arg,       \* its positional argument (query, topic, url, or list of urls)
    env,       \* process.env, restricted to EXA_API_KEY
    flags,     \* the flags given on the command line
    opts,      \* the options object commander hands to the action
    now,       \* the wall clock read by new Date()
    calls,     \* the calls issued to the exa-js client, in order
    response,  \* <<r>> once the awaited call has resolved to r, <<>> before
    lines,     \* formatResults' local array of lines
    ret,       \* <<s>> once formatResults has returned the string s, <<>> before
    stdout,    \* the console.log writes, in order
    stderr,    \* the console.error writes, in order
    exitCode   \* the process exit code, -1 while running

vars == <<pc, cmd, arg, env, flags, opts, now, calls, response, lines, ret, stdout, stderr, exitCode>>

-----------------------------------------------------------------------------
(* Bounds of the model *)

\* longest num or days option string
MaxLen == 2
\* most items in a response given to the formatter alone
MaxResults == 2
\* the day new Date() reads, in days since the epoch
NowDay == 20394

\* the characters num and days option strings are made of: digits, the sign and,
\* as "-" in any other place, a character that is no digit
NumChars == {"0", "2", "-"}

-----------------------------------------------------------------------------
(* JavaScript values *)

\* the object with no property
Empty == <<>>

Has(o, k) == k \in DOMAIN o

\* a Number: an integer or NaN
Num(n) == [nan |-> FALSE, val |-> n]
NaN == [nan |-> TRUE, val |-> 0]

Min(a, b) == IF a < b THEN a ELSE b

\* all strings over alphabet cs of length at most n
RECURSIVE StringsUpTo(_, _)
StringsUpTo(cs, n) ==
    IF n = 0 THEN {<<>>}
    ELSE LET shorter == StringsUpTo(cs, n - 1)
         IN shorter \cup {Append(s, c) : s \in shorter, c \in cs}

-----------------------------------------------------------------------------
(* parseInt(string), radix undefined (ECMAScript 19.2.5) *)

WhiteSpace == {" ", "\t", "\n", "\r"}

DigitVal(c) ==
    CASE c = "0" -> 0 [] c = "1" -> 1 [] c = "2" -> 2 [] c = "3" -> 3
      [] c = "4" -> 4 [] c = "5" -> 5 [] c = "6" -> 6 [] c = "7" -> 7
      [] c = "8" -> 8 [] c = "9" -> 9
      [] c \in {"a", "A"} -> 10 [] c \in {"b", "B"} -> 11
      [] c \in {"c", "C"} -> 12 [] c \in {"d", "D"} -> 13
      [] c \in {"e", "E"} -> 14 [] c \in {"f", "F"} -> 15
      [] OTHER -> 99

RECURSIVE TrimStart(_)
TrimStart(s) ==
    IF s # <<>> /\ Head(s) \in WhiteSpace THEN TrimStart(Tail(s)) ELSE s

\* the longest prefix of s made of digits of the radix
RECURSIVE DigitPrefix(_, _)
DigitPrefix(s, radix) ==
    IF s # <<>> /\ DigitVal(Head(s)) < radix
    THEN <<Head(s)>> \o DigitPrefix(Tail(s), radix)
    ELSE <<>>

\* the value of a string of digits, most significant first
RECURSIVE DigitsValue(_, _, _)
DigitsValue(s, radix, acc) ==
    IF s = <<>> THEN acc
    ELSE DigitsValue(Tail(s), radix, acc * radix + DigitVal(Head(s)))

parseInt(string) ==
    LET trimmed == TrimStart(string)
        signed == trimmed # <<>> /\ Head(trimmed) \in {"+", "-"}
        sign == IF trimmed # <<>> /\ Head(trimmed) = "-" THEN -1 ELSE 1
        body == IF signed THEN Tail(trimmed) ELSE trimmed
        hex == Len(body) >= 2 /\ body[1] = "0" /\ body[2] \in {"x", "X"}
        radix == IF hex THEN 16 ELSE 10
        rest == IF hex THEN Tail(Tail(body)) ELSE body
        digits == DigitPrefix(rest, radix)
    IN IF digits = <<>> THEN NaN ELSE Num(sign * DigitsValue(digits, radix, 0))

-----------------------------------------------------------------------------
(* Date *)

\* a Date: a day since the epoch (the time of day is carried along unchanged),
\* or the Invalid Date
DateOf(d) == [valid |-> TRUE, day |-> d]
InvalidDate == [valid |-> FALSE, day |-> 0]

\* date.setDate(date.getDate() - n): the day of the month less n, which MakeDay
\* normalises into the calendar day n days earlier; NaN gives the Invalid Date
setDateBack(date, n) ==
    IF n.nan \/ ~date.valid THEN InvalidDate ELSE DateOf(date.day - n.val)

\* date.toISOString() of a valid date (it throws a RangeError on the Invalid Date)
toISOString(date) == <<"ISO-8601", ToString(date.day)>>

RangeError == "Invalid time value"

-----------------------------------------------------------------------------
(* The command-line surface: commander's option declarations *)

Commands == {"search", "similar", "contents", "research", "news", "papers"}

\* the defaults with a month, not a week, of news
DefaultsNewsMonth(c) ==
    CASE c = "search" -> [num |-> <<"1", "0">>, type |-> "auto", format |-> "text"]
      [] c = "similar" -> [num |-> <<"1", "0">>, format |-> "text"]
      [] c = "contents" -> [format |-> "text"]
      [] c = "research" -> [num |-> <<"5">>, format |-> "text"]
      [] c = "news" -> [num |-> <<"1", "0">>, days |-> <<"3", "0">>, format |-> "text"]
      [] c = "papers" -> [num |-> <<"1", "0">>, format |-> "text"]

\* the option defaults commander fills in when the flag is not given
Defaults(c) ==
    CASE c = "search" -> [num |-> <<"1", "0">>, type |-> "auto", format |-> "text"]
      [] c = "similar" -> [num |-> <<"1", "0">>, format |-> "text"]
      [] c = "contents" -> [format |-> "text"]
      [] c = "research" -> [num |-> <<"5">>, format |-> "text"]
      [] c = "news" -> [num |-> <<"1", "0">>, days |-> <<"7">>, format |-> "text"]
      [] c = "papers" -> [num |-> <<"1", "0">>, format |-> "text"]

\* the options each subcommand declares
Declared(c) ==
    CASE c = "search" -> {"num", "type", "contents", "summary", "days", "domain", "format"}
      [] c = "similar" -> {"num", "contents", "format"}
      [] c = "contents" -> {"summary", "format"}
      [] c = "research" -> {"num", "days", "format"}
      [] c = "news" -> {"num", "days", "format"}
      [] c = "papers" -> {"num", "format"}

\* the values a flag may be given on the command line; --type, which search
\* passes on as it is, is left at its default
NumStrings == StringsUpTo(NumChars, MaxLen)

Given(k) ==
    CASE k \in {"num", "days"} -> NumStrings
      [] k = "type" -> {}
      [] k \in {"contents", "summary"} -> {TRUE}
      [] k = "domain" -> {"", "example.com"}
      [] k = "format" -> {"json"}

\* one flag: not given, or given with one of its values
Flag(c, k) ==
    IF k \in Declared(c) THEN {Empty} \cup {k :> v : v \in Given(k)} ELSE {Empty}

\* every choice of flags subcommand c can be run with
FlagSets(c) ==
    {n @@ t @@ co @@ s @@ d @@ dom @@ f :
        n \in Flag(c, "num"), t \in Flag(c, "type"), co \in Flag(c, "contents"),
        s \in Flag(c, "summary"), d \in Flag(c, "days"), dom \in Flag(c, "domain"),
        f \in Flag(c, "format")}

\* the options object commander hands to the action: the flags given, and the
\* default of every flag that is not
ParseOptions(c, given) == given @@ Defaults(c)

\* the positional argument of each subcommand
Argument(c) ==
    IF c = "contents" THEN <<"https://a.example", "https://b.example">>
    ELSE IF c = "similar" THEN "https://a.example"
    ELSE "topic X"

\* process.env: EXA_API_KEY unset, set to the empty string, or set
Environments == {Empty, [EXA_API_KEY |-> ""], [EXA_API_KEY |-> "key"]}

-----------------------------------------------------------------------------
(* formatResults *)

RuleWidth == 60
PreviewLimit == 300

\* c repeated n times
Repeat(c, n) == [i \in 1..n |-> c]

\* the divider rule
Divider == Repeat("[-]", RuleWidth)

\* the concatenation of the strings of a list, sep between neighbours
RECURSIVE Join(_, _)
Join(ls, sep) ==
    IF ls = <<>> THEN <<>>
    ELSE IF Len(ls) = 1 THEN ls[1]
    ELSE ls[1] \o sep \o Join(Tail(ls), sep)

\* truthiness of an optional property holding an opaque string / a character string
TruthyStr(o, k) == Has(o, k) /\ o[k] # ""
TruthyChars(o, k) == Has(o, k) /\ o[k] # <<>>

\* string.slice(0, n)
slice(s, n) == SubSeq(s, 1, Min(Len(s), n))

\* string.replace(/\n/g, " ")
replaceNewlines(s) == [i \in 1..Len(s) |-> IF s[i] = "\n" THEN " " ELSE s[i]]

\* new Date(publishedDate).toLocaleDateString(): depends on the locale
toLocaleDateString(d) == <<"toLocaleDateString(", d, ")">>

Ellipsis == <<".", ".", ".">>

\* the preview with the marker already at the limit (>= for >)
PreviewLineAtLimit(text) ==
    replaceNewlines(slice(text, PreviewLimit))
        \o (IF Len(text) >= PreviewLimit THEN Ellipsis ELSE <<>>)

\* `${preview}${result.text.length > 300 ? "..." : ""}`
PreviewLine(text) ==
    replaceNewlines(slice(text, PreviewLimit))
        \o (IF Len(text) > PreviewLimit THEN Ellipsis ELSE <<>>)

\* the lines one pass of the loop body pushes
ItemLines(result) ==
    <<  <<>>,
        <<"[doc] ", IF TruthyStr(result, "title") THEN result.title ELSE "Untitled">>,
        <<"[link] ", result.url>> >>
    \o (IF TruthyStr(result, "publishedDate")
        THEN << <<"[cal] ">> \o toLocaleDateString(result.publishedDate) >> ELSE <<>>)
    \o (IF TruthyStr(result, "author") THEN << <<"[pen]  ", result.author>> >> ELSE <<>>)
    \o (IF TruthyStr(result, "summary")
        THEN << <<>>, <<"[memo] ", result.summary>> >> ELSE <<>>)
    \o (IF TruthyChars(result, "text") THEN << <<>>, PreviewLine(result.text) >> ELSE <<>>)
    \o << <<>>, Divider >>

\* results.results || []
ResultList(results) == IF Has(results, "results") THEN results.results ELSE <<>>

\* `\n[mag] Found ${results.results?.length || 0} results\n`
HeaderLine(results) ==
    <<"\n", "[mag] Found ", ToString(Len(ResultList(results))), " results", "\n">>

\* the blocks in the reverse of the order received
RECURSIVE AllItemLinesReversed(_)
AllItemLinesReversed(rs) ==
    IF rs = <<>> THEN <<>> ELSE AllItemLinesReversed(Tail(rs)) \o ItemLines(Head(rs))

RECURSIVE AllItemLines(_)
AllItemLines(rs) ==
    IF rs = <<>> THEN <<>> ELSE ItemLines(Head(rs)) \o AllItemLines(Tail(rs))

\* the array `lines` when the loop has ended
TextLines(results) ==
    <<HeaderLine(results), Divider>> \o AllItemLines(ResultList(results))

\* JSON.stringify(value, null, 2) of a response: properties in the order received
ItemKeys == <<"title", "url", "publishedDate", "author", "summary", "text">>

\* a character string as a JSON string: a newline becomes the escape \n
JSONChars(s) ==
    <<"\"">> \o [i \in 1..Len(s) |-> IF s[i] = "\n" THEN "\\n" ELSE s[i]] \o <<"\"">>

JSONValue(it, k) ==
    IF k = "text" THEN JSONChars(it[k]) ELSE <<"\"", it[k], "\"">>

JSONItem(it) ==
    LET keys == SelectSeq(ItemKeys, LAMBDA k : Has(it, k))
        member(k) == <<"      ", "\"", k, "\"", ": ">> \o JSONValue(it, k)
    IN <<"    ", "{", "\n">>
        \o Join([i \in 1..Len(keys) |-> member(keys[i])], <<",", "\n">>)
        \o <<"\n", "    ", "}">>

JSONStringify(results) ==
    IF ~Has(results, "results") THEN <<"{", "}">>
    ELSE IF results.results = <<>> THEN <<"{", "\n", "  ", "\"", "results", "\"", ": ", "[", "]", "\n", "}">>
    ELSE <<"{", "\n", "  ", "\"", "results", "\"", ": ", "[", "\n">>
        \o Join([i \in 1..Len(results.results) |-> JSONItem(results.results[i])], <<",", "\n">>)
        \o <<"\n", "  ", "]", "\n", "}">>

\* the array `lines` when formatResults returns (never created in json mode)
formatLines(results, format) ==
    IF format = "json" THEN <<>> ELSE TextLines(results)

formatResults(results, format) ==
    IF format = "json" THEN JSONStringify(results)
    ELSE Join(TextLines(results), <<"\n">>)

-----------------------------------------------------------------------------
(* The external collaborator: what a call can resolve to or reject with *)

\* a short text with a newline in it
ShortText == <<"a", "\n", "b">>

Responses ==
    { Empty,
      [results |-> <<>>],
      [results |-> << [url |-> "https://r1.example", title |-> "T1", text |-> ShortText],
                      [url |-> "https://r2.example"] >>] }

Failures == {"fetch failed"}

-----------------------------------------------------------------------------
(* The request each handler builds *)

\* options.k || d, for a character string and for an opaque string
OrChars(o, k, d) == IF TruthyChars(o, k) THEN o[k] ELSE d
OrStr(o, k, d) == IF TruthyStr(o, k) THEN o[k] ELSE d

\* what a handler's try block comes to at its await: a call issued, or an
\* exception thrown before any call
Issued(method, subject, options) ==
    [thrown |-> <<>>, call |-> <<[method |-> method, subject |-> subject, options |-> options]>>]
Thrown(message) == [thrown |-> <<message>>, call |-> <<>>]

\* const date = new Date(); date.setDate(date.getDate() - parseInt(days));
DateFloor(days) == setDateBack(now, parseInt(days))

AcademicDomains ==
    <<"arxiv.org", "scholar.google.com", "semanticscholar.org", "papers.ssrn.com",
      "researchgate.net">>

SearchAttempt ==
    LET base == [numResults |-> parseInt(OrChars(opts, "num", <<"1", "0">>)),
                 type |-> OrStr(opts, "type", "auto")]
        withDate == IF TruthyChars(opts, "days")
                    THEN [startPublishedDate |-> toISOString(DateFloor(opts.days))] @@ base
                    ELSE base
        searchOptions == IF TruthyStr(opts, "domain")
                         THEN [includeDomains |-> <<opts.domain>>] @@ withDate
                         ELSE withDate
        contentsOptions == (IF Has(opts, "contents") THEN [text |-> TRUE] ELSE Empty)
                           @@ (IF Has(opts, "summary") THEN [summary |-> TRUE] ELSE Empty)
    IN IF TruthyChars(opts, "days") /\ ~DateFloor(opts.days).valid THEN Thrown(RangeError)
       ELSE IF Has(opts, "contents") \/ Has(opts, "summary")
       THEN Issued("searchAndContents", arg, contentsOptions @@ searchOptions)
       ELSE Issued("search", arg, searchOptions)

SimilarAttempt ==
    IF Has(opts, "contents")
    THEN Issued("findSimilarAndContents", arg,
                [numResults |-> parseInt(OrChars(opts, "num", <<"1", "0">>)), text |-> TRUE])
    ELSE Issued("findSimilar", arg,
                [numResults |-> parseInt(OrChars(opts, "num", <<"1", "0">>))])

ContentsAttempt ==
    Issued("getContents", arg,
           (IF Has(opts, "summary") THEN [summary |-> TRUE] ELSE Empty) @@ [text |-> TRUE])

ResearchAttempt ==
    LET base == [numResults |-> parseInt(OrChars(opts, "num", <<"5">>)),
                 type |-> "neural", text |-> TRUE, summary |-> TRUE]
    IN IF ~TruthyChars(opts, "days") THEN Issued("searchAndContents", arg, base)
       ELSE IF ~DateFloor(opts.days).valid THEN Thrown(RangeError)
       ELSE Issued("searchAndContents", arg,
                   [startPublishedDate |-> toISOString(DateFloor(opts.days))] @@ base)

NewsAttempt ==
    LET date == DateFloor(OrChars(opts, "days", <<"7">>))
    IN IF ~date.valid THEN Thrown(RangeError)
       ELSE Issued("searchAndContents", arg,
                   [numResults |-> parseInt(OrChars(opts, "num", <<"1", "0">>)),
                    type |-> "neural",
                    startPublishedDate |-> toISOString(date),
                    summary |-> TRUE])

\* papers with the last domain of the list left out
PapersAttemptFourDomains ==
    Issued("searchAndContents", arg,
           [numResults |-> parseInt(OrChars(opts, "num", <<"1", "0">>)),
            type |-> "neural",
            includeDomains |-> SubSeq(AcademicDomains, 1, 4),
            summary |-> TRUE])

PapersAttempt ==
    Issued("searchAndContents", arg,
           [numResults |-> parseInt(OrChars(opts, "num", <<"1", "0">>)),
            type |-> "neural",
            includeDomains |-> AcademicDomains,
            summary |-> TRUE])

\* the progress line a handler logs at the top of its try block
Banner(c) ==
    CASE c = "research" -> << <<"[microscope] Researching: ", arg, "...", "\n">> >>
      [] c = "news" -> << <<"[newspaper] Searching news: ", arg, "...", "\n">> >>
      [] c = "papers" -> << <<"[books] Searching papers: ", arg, "...", "\n">> >>
      [] OTHER -> <<>>

\* console.error's line in getClient, and in every catch block
ConfigError == <<"[x] EXA_API_KEY environment variable not set">>
ErrorLine(message) == <<"[x] Error:", " ", message>>

-----------------------------------------------------------------------------
(* The invocation *)

Init ==
    /\ pc = "start"
    /\ cmd \in Commands
    /\ arg = Argument(cmd)
    /\ env \in Environments
    /\ flags \in FlagSets(cmd)
    /\ opts = ParseOptions(cmd, flags)
    /\ now = DateOf(NowDay)
    /\ calls = <<>>
    /\ response = <<>>
    /\ lines = <<>>
    /\ ret = <<>>
    /\ stdout = <<>>
    /\ stderr = <<>>
    /\ exitCode = -1

\* the credential test letting an empty key through
getClientFailsWhenUnset == ~Has(env, "EXA_API_KEY")

\* const apiKey = process.env.EXA_API_KEY; if (!apiKey) ...
getClientFails == ~TruthyStr(env, "EXA_API_KEY")

\* a handler from its first line to its await, or to process.exit(1)
Handler(c, attempt) ==
    /\ pc = "start"
    /\ cmd = c
    /\ IF getClientFails
       THEN /\ stderr' = Append(stderr, ConfigError)
            /\ exitCode' = 1
            /\ pc' = "exited"
            /\ UNCHANGED <<stdout, calls>>
       ELSE /\ stdout' = stdout \o Banner(c)
            /\ IF attempt.thrown # <<>>
               THEN /\ stderr' = Append(stderr, ErrorLine(attempt.thrown[1]))
                    /\ exitCode' = 1
                    /\ pc' = "exited"
                    /\ UNCHANGED calls
               ELSE /\ calls' = Append(calls, attempt.call[1])
                    /\ pc' = "await"
                    /\ UNCHANGED <<stderr, exitCode>>
    /\ UNCHANGED <<cmd, arg, env, flags, opts, now, response, lines, ret>>

Search == Handler("search", SearchAttempt)
Similar == Handler("similar", SimilarAttempt)
Contents == Handler("contents", ContentsAttempt)
Research == Handler("research", ResearchAttempt)
News == Handler("news", NewsAttempt)
Papers == Handler("papers", PapersAttempt)

\* the awaited call resolves: console.log(formatResults(results, options.format)),
\* the handler returns and the process ends with code 0
Resolve ==
    /\ pc = "await"
    /\ \E r \in Responses :
        /\ response' = <<r>>
        /\ lines' = formatLines(r, opts.format)
        /\ ret' = <<formatResults(r, opts.format)>>
        /\ stdout' = Append(stdout, formatResults(r, opts.format))
    /\ exitCode' = 0
    /\ pc' = "done"
    /\ UNCHANGED <<cmd, arg, env, flags, opts, now, calls, stderr>>

\* the catch block running the handler again
RejectRetries ==
    /\ pc = "await"
    /\ \E e \in Failures : stderr' = Append(stderr, ErrorLine(e))
    /\ pc' = "start"
    /\ UNCHANGED <<cmd, arg, env, flags, opts, now, calls, response, lines, ret, stdout, exitCode>>

\* the catch block leaving with code 0
RejectExitsZero ==
    /\ pc = "await"
    /\ \E e \in Failures : stderr' = Append(stderr, ErrorLine(e))
    /\ exitCode' = 0
    /\ pc' = "exited"
    /\ UNCHANGED <<cmd, arg, env, flags, opts, now, calls, response, lines, ret, stdout>>

\* the awaited call rejects: the catch block
Reject ==
    /\ pc = "await"
    /\ \E e \in Failures : stderr' = Append(stderr, ErrorLine(e))
    /\ exitCode' = 1
    /\ pc' = "exited"
    /\ UNCHANGED <<cmd, arg, env, flags, opts, now, calls, response, lines, ret, stdout>>

Next ==
    \/ Search
    \/ Similar
    \/ Contents
    \/ Research
    \/ News
    \/ Papers
    \/ Resolve
    \/ Reject

Spec == Init /\ [][Next]_vars

-----------------------------------------------------------------------------
(* formatResults on its own: the responses it is given *)

\* a text of length n, with a newline at every multiple of period (none if 0)
Text(n, period) ==
    [i \in 1..n |-> IF period > 0 /\ i % period = 0 THEN "\n" ELSE "a"]

\* lengths at both ends: empty, one character, and around the preview limit
TextLengths == {0, 1, PreviewLimit - 1, PreviewLimit, PreviewLimit + 1}

Texts == {Text(n, period) : n \in TextLengths, period \in {0, 2}}

\* result items: with and without each optional field, and with each text
ItemPool ==
    { [url |-> "https://r1.example"] @@ m :
        m \in { Empty,
                [title |-> ""],
                [title |-> "T1", publishedDate |-> "2024-05-01"],
                [author |-> "A1", summary |-> "S1"] } }
    \cup { [url |-> "https://r2.example", text |-> t] @@ m :
            t \in Texts, m \in {Empty, [title |-> "T2", summary |-> "S2"]} }

RECURSIVE SeqsUpTo(_, _)
SeqsUpTo(S, n) ==
    IF n = 0 THEN {<<>>}
    ELSE LET shorter == SeqsUpTo(S, n - 1)
         IN shorter \cup {Append(s, x) : s \in shorter, x \in S}

FormatterInputs ==
    {Empty} \cup {[results |-> rs] : rs \in SeqsUpTo(ItemPool, MaxResults)}

FormatInit ==
    /\ pc = "format"
    /\ cmd = ""
    /\ arg = ""
    /\ env = Empty
    /\ flags = Empty
    /\ opts \in {[format |-> f] : f \in {"text", "json"}}
    /\ now = DateOf(NowDay)
    /\ calls = <<>>
    /\ response \in {<<r>> : r \in FormatterInputs}
    /\ lines = <<>>
    /\ ret = <<>>
    /\ stdout = <<>>
    /\ stderr = <<>>
    /\ exitCode = -1

\* one call of formatResults(results, format)
FormatResults ==
    /\ pc = "format"
    /\ lines' = formatLines(response[1], opts.format)
    /\ ret' = <<formatResults(response[1], opts.format)>>
    /\ pc' = "formatted"
    /\ UNCHANGED <<cmd, arg, env, flags, opts, now, calls, response, stdout, stderr, exitCode>>

FormatNext == FormatResults

FormatSpec == FormatInit /\ [][FormatNext]_vars

-----------------------------------------------------------------------------
(* Reading a text report back: its item blocks *)

\* the lines of a report after its header and first rule, cut after every rule;
\* a last group that no rule closes is kept, so that it is seen
RECURSIVE CutAtRules(_, _)
CutAtRules(ls, open) ==
    IF ls = <<>> THEN (IF open = <<>> THEN <<>> ELSE <<open>>)
    ELSE IF Head(ls) = Divider THEN <<open>> \o CutAtRules(Tail(ls), <<>>)
    ELSE CutAtRules(Tail(ls), Append(open, Head(ls)))

BlocksOf(ls) == CutAtRules(SubSeq(ls, 3, Len(ls)), <<>>)

RulesIn(ls) == Cardinality({i \in 1..Len(ls) : ls[i] = Divider})

LinePrefixes == {"[doc] ", "[link] ", "[cal] ", "[pen]  ", "[memo] "}

\* the lines of a block that start with the given prefix
LinesWith(block, prefix) ==
    SelectSeq(block, LAMBDA l : l # <<>> /\ l[1] = prefix)

\* the lines of a block that are neither blank nor prefixed: the body previews
PreviewsIn(block) ==
    SelectSeq(block, LAMBDA l : l # <<>> /\ l[1] \notin LinePrefixes)

\* every preview of a block comes right after a blank line
PreviewsAfterBlank(block) ==
    \A k \in 1..Len(block) :
        (block[k] # <<>> /\ block[k][1] \notin LinePrefixes) => (k > 1 /\ block[k - 1] = <<>>)

\* the first min(L, 300) characters, newlines turned to spaces, and the marker
\* if and only if L > 300
ExpectedPreview(text) ==
    LET L == Len(text)
        kept == [j \in 1..(IF L < 300 THEN L ELSE 300) |->
                    IF text[j] = "\n" THEN " " ELSE text[j]]
    IN IF L > 300 THEN kept \o <<".", ".", ".">> ELSE kept

\* C9: in text mode the block of every item with a non-empty text holds exactly
\* one preview: the first min(L, 300) characters of the text with each newline
\* replaced by a space, followed by the ellipsis marker if and only if L > 300;
\* the block of an item whose text is absent holds no preview.
C9_Preview ==
    (pc = "formatted" /\ opts.format = "text") =>
        LET rs == ResultList(response[1])
            bs == BlocksOf(lines)
        IN /\ Len(bs) = Len(rs)
           /\ \A i \in 1..Len(rs) :
                /\ PreviewsAfterBlank(bs[i])
                /\ IF Has(rs[i], "text") /\ rs[i].text # <<>>
                   THEN PreviewsIn(bs[i]) = <<ExpectedPreview(rs[i].text)>>
                   ELSE ~Has(rs[i], "text") => PreviewsIn(bs[i]) = <<>>

\* a report of two items, one with a text of 301 characters (300 kept, a newline
\* among them, then the marker) and one with a text of 300 (kept whole, no marker)
C9_Witness ==
    /\ pc = "formatted"
    /\ opts.format = "text"
    /\ LET rs == ResultList(response[1])
           bs == BlocksOf(lines)
       IN /\ Len(rs) = 2
          /\ Len(bs) = 2
          /\ Has(rs[1], "text") /\ Len(rs[1].text) = 301 /\ rs[1].text[2] = "\n"
          /\ Has(rs[2], "text") /\ Len(rs[2].text) = 300
          /\ Len(PreviewsIn(bs[1])[1]) = 303
          /\ PreviewsIn(bs[1])[1][2] = " "
          /\ SubSeq(PreviewsIn(bs[1])[1], 301, 303) = <<".", ".", ".">>
          /\ PreviewsIn(bs[2]) = <<replaceNewlines(rs[2].text)>>

\* the shape of a text report of the response
TextShape ==
    LET rs == ResultList(response[1])
        n == Len(rs)
        bs == BlocksOf(lines)
    IN /\ Len(lines) >= 2
       /\ lines[1] = <<"\n", "[mag] Found ", ToString(n), " results", "\n">>
       /\ lines[2] = Divider
       /\ RulesIn(lines) = n + 1
       /\ lines[Len(lines)] = Divider
       /\ Len(bs) = n
       /\ \A i \in 1..n :
            /\ LinesWith(bs[i], "[link] ") = << <<"[link] ", rs[i].url>> >>
            /\ LinesWith(bs[i], "[doc] ") =
                << <<"[doc] ", IF Has(rs[i], "title") /\ rs[i].title # ""
                               THEN rs[i].title ELSE "Untitled">> >>
            /\ Len(LinesWith(bs[i], "[memo] ")) = (IF Has(rs[i], "summary") THEN 1 ELSE 0)
            /\ Len(PreviewsIn(bs[i])) =
                (IF Has(rs[i], "text") /\ rs[i].text # <<>> THEN 1 ELSE 0)

\* C10: formatting a response of n items in text mode (n = 0 when the collection
\* is absent or empty) gives a header stating n, one divider rule, then exactly n
\* item blocks in the order received, each closed by its own rule (n + 1 rules in
\* all); and formatting leaves the response as it was.
C10_Blocks ==
    [][(pc = "format" /\ pc' = "formatted") =>
        /\ response' = response
        /\ (opts.format = "text" => TextShape')]_vars

\* a report of two items with different urls, blocks in the order received
C10_Witness ==
    /\ pc = "formatted"
    /\ opts.format = "text"
    /\ LET rs == ResultList(response[1])
       IN /\ Len(rs) = 2
          /\ rs[1].url = "https://r2.example"
          /\ rs[2].url = "https://r1.example"
          /\ Len(BlocksOf(lines)) = 2
          /\ RulesIn(lines) = 3
          /\ LinesWith(BlocksOf(lines)[1], "[link] ") = << <<"[link] ", "https://r2.example">> >>

-----------------------------------------------------------------------------
(* Properties of an invocation *)

\* the credential variable is set and not empty
HasCredential == Has(env, "EXA_API_KEY") /\ env.EXA_API_KEY # ""

Last(q) == q[Len(q)]

\* the num string the handler parses: the flag, or the default when the flag is
\* not given or empty
NumInEffect ==
    IF Has(flags, "num") /\ flags.num # <<>> THEN flags.num
    ELSE IF cmd = "research" THEN <<"5">> ELSE <<"1", "0">>

\* the days string the handler parses, if it parses one
DaysInEffect ==
    IF cmd \in {"search", "research"}
    THEN (IF Has(flags, "days") /\ flags.days # <<>> THEN <<flags.days>> ELSE <<>>)
    ELSE IF cmd = "news"
    THEN (IF Has(flags, "days") /\ flags.days # <<>> THEN <<flags.days>> ELSE << <<"7">> >>)
    ELSE <<>>

\* the handler parses a days string and parseInt gives NaN for it
DaysUnparsable == DaysInEffect # <<>> /\ parseInt(DaysInEffect[1]).nan

\* the one call was issued and it failed
CallFailed == Len(calls) = 1 /\ response = <<>> /\ pc = "exited"

\* the decimal numeral of an integer
DigitChar(d) ==
    CASE d = 0 -> "0" [] d = 1 -> "1" [] d = 2 -> "2" [] d = 3 -> "3" [] d = 4 -> "4"
      [] d = 5 -> "5" [] d = 6 -> "6" [] d = 7 -> "7" [] d = 8 -> "8" [] d = 9 -> "9"

RECURSIVE Numeral(_)
Numeral(n) ==
    IF n < 0 THEN <<"-">> \o Numeral(-n)
    ELSE IF n < 10 THEN <<DigitChar(n)>>
    ELSE Append(Numeral(n \div 10), DigitChar(n % 10))

\* C1: with the credential variable absent or empty, the invocation reports the
\* configuration error on the error stream and exits non-zero; no call is ever
\* issued, nothing is formatted and nothing is written to standard output.
C1_ConfigError ==
    ~HasCredential =>
        /\ calls = <<>>
        /\ stdout = <<>>
        /\ response = <<>>
        /\ ret = <<>>
        /\ \/ pc = "start" /\ exitCode = -1 /\ stderr = <<>>
           \/ /\ pc = "exited"
              /\ exitCode = 1
              /\ stderr = << <<"[x] EXA_API_KEY environment variable not set">> >>

\* research, which logs a progress line first when it has a key, run with the
\* variable set to the empty string
C1_Witness ==
    /\ cmd = "research"
    /\ env = [EXA_API_KEY |-> ""]
    /\ pc = "exited"
    /\ exitCode = 1
    /\ Len(stderr) = 1

\* formatting happens only once the one call has resolved
AwaitedBeforeFormatting ==
    (ret # <<>> \/ lines # <<>>) => (Len(calls) = 1 /\ response # <<>> /\ pc = "done")

\* a failed call ends the invocation: no result, no second call
FailedCallEnds ==
    (calls # <<>> /\ stderr # <<>>) =>
        (Len(calls) = 1 /\ pc = "exited" /\ exitCode = 1 /\ response = <<>> /\ ret = <<>>)

C3_NoPartialOutput ==
    /\ pc = "exited" => stdout = <<>>
    /\ pc = "done" => (stdout # <<>> /\ Last(stdout) = formatResults(response[1], opts.format))

\* C4: a num string that parses to a positive integer is the request's count; any
\* other num string fails the invocation before a request is sent, so that every
\* request sent has a count above zero.
C4_PositiveCount ==
    LET n == parseInt(NumInEffect)
    IN /\ \A i \in 1..Len(calls) :
            Has(calls[i].options, "numResults") =>
                (~calls[i].options.numResults.nan /\ calls[i].options.numResults.val > 0)
       /\ (cmd # "contents" /\ HasCredential /\ pc # "start") =>
            IF ~n.nan /\ n.val > 0
            THEN calls # <<>> => calls[1].options.numResults = n
            ELSE calls = <<>> /\ pc = "exited" /\ exitCode = 1

\* how an invocation can stand: running with no code, ended with 0 after the
\* formatted result went to standard output, or ended with 1 after one
\* diagnostic went to the error stream
ExitShape ==
    /\ exitCode \in {-1, 0, 1}
    /\ exitCode = -1 <=> pc \in {"start", "await"}
    /\ exitCode = 0 =>
        /\ pc = "done"
        /\ Len(calls) = 1 /\ response # <<>>
        /\ stderr = <<>>
        /\ stdout # <<>> /\ Last(stdout) = formatResults(response[1], opts.format)
    /\ exitCode = 1 =>
        /\ pc = "exited"
        /\ Len(stderr) = 1 /\ stderr[1][1] \in {"[x] EXA_API_KEY environment variable not set", "[x] Error:"}
        /\ response = <<>> /\ ret = <<>>

DayOffsets == -250..250

\* C6: the request of news has the topic as its query, mode neural and the summary
\* flag whatever the flags; with no num flag its count is 10; with no days flag
\* its date floor is now less 7 days, with days N it is now less N days.
C6_News ==
    (cmd = "news" /\ calls # <<>>) =>
        LET o == calls[1].options
        IN /\ calls[1].method = "searchAndContents"
           /\ calls[1].subject = arg
           /\ DOMAIN o = {"numResults", "type", "startPublishedDate", "summary"}
           /\ o.type = "neural"
           /\ o.summary = TRUE
           /\ ~Has(flags, "num") => o.numResults = Num(10)
           /\ ~Has(flags, "days") => o.startPublishedDate = toISOString(DateOf(NowDay - 7))
           /\ \A n \in DayOffsets :
                (Has(flags, "days") /\ flags.days = Numeral(n)) =>
                    o.startPublishedDate = toISOString(DateOf(NowDay - n))

\* news with a topic and no flag at all, its call issued
C6_Witness ==
    /\ cmd = "news"
    /\ flags = Empty
    /\ pc = "await"
    /\ calls[1].subject = "topic X"
    /\ calls[1].options.numResults = Num(10)
    /\ calls[1].options.startPublishedDate = toISOString(DateOf(NowDay - 7))

\* C7: a request has a date floor exactly when search or research was given the
\* days flag (0 included), or the subcommand is news; a request of similar,
\* contents or papers never has one.
C7_DateFloorIffSupplied ==
    \A i \in 1..Len(calls) :
        Has(calls[i].options, "startPublishedDate") <=>
            \/ cmd \in {"search", "research"} /\ Has(flags, "days")
            \/ cmd = "news"

FiveDomains ==
    <<"arxiv.org", "scholar.google.com", "semanticscholar.org", "papers.ssrn.com",
      "researchgate.net">>

\* what C8 says of papers: the five domains in order, mode neural, summary on
PapersRequest(o) ==
    /\ Has(o, "includeDomains") /\ o.includeDomains = FiveDomains
    /\ o.type = "neural"
    /\ o.summary = TRUE

\* C8 as stated: a request of papers has the five-domain list, mode neural and the
\* summary flag; of the others only search sends a domain filter, when it was
\* given the domain flag, and the filter is then that one domain.
C8_DomainFilter ==
    \A i \in 1..Len(calls) :
        LET o == calls[i].options
        IN IF cmd = "papers" THEN PapersRequest(o)
           ELSE /\ Has(o, "includeDomains") <=> (cmd = "search" /\ Has(flags, "domain"))
                /\ Has(o, "includeDomains") => o.includeDomains = <<flags.domain>>

\* C8 amended: search sends the domain filter when it was given the domain flag
\* with a value that is not the empty string.
C8_DomainFilterNonEmpty ==
    \A i \in 1..Len(calls) :
        LET o == calls[i].options
        IN IF cmd = "papers" THEN PapersRequest(o)
           ELSE /\ Has(o, "includeDomains") <=>
                    (cmd = "search" /\ Has(flags, "domain") /\ flags.domain # "")
                /\ Has(o, "includeDomains") => o.includeDomains = <<flags.domain>>

\* papers run with a num flag and json output, its call issued
C8_Witness ==
    /\ cmd = "papers"
    /\ Has(flags, "num") /\ flags.num = <<"2">>
    /\ Has(flags, "format") /\ flags.format = "json"
    /\ pc = "await"
    /\ calls[1].options.includeDomains[5] = "researchgate.net"
    /\ Len(calls[1].options.includeDomains) = 5

====
